---- MODULE Spec2Model ----
(***************************************************************************)
(* A model of the ray tracer of src/main.cpp: the scene, the intersection  *)
(* solver, the lighting evaluator, the ray tracer and the render loop.     *)
(*                                                                         *)
(* Numbers of type double are modelled as decimal floating-point numbers   *)
(* m * 10^e with a mantissa of at most Digits digits, rounded to nearest   *)
(* after every operation, with NaN and the infinities; every operation of  *)
(* the code on a double is one rounded operation here, in the code's       *)
(* order.  The header defs.h (Point, Color, Sphere, Light and their        *)
(* operators) is not part of the sources; its operators follow the         *)
(* specification's section 4.1 and the way main.cpp uses them.             *)
(***************************************************************************)
EXTENDS Integers, Sequences, FiniteSets, TLC

(***************************************************************************)
(* Bounds of the model.                                                    *)
(***************************************************************************)
\* Half of the canvas width and height: the canvas is 2*HalfCanvas wide
\* and high (the program's canvas is 2 * 1000).
HalfCanvas == 2
\* The longest sphere list trace_ray is applied to on its own.
MaxSpheres == 2
\* The longest light list compute_lighting is applied to on its own.
MaxLights == 2

(***************************************************************************)
(* double                                                                  *)
(***************************************************************************)
\* Significant decimal digits kept by the model of double.
Digits == 4

Abs(n) == IF n < 0 THEN -n ELSE n

Pow10(k) == <<1, 10, 100, 1000, 10000, 100000, 1000000, 10000000,
              100000000, 1000000000>>[k + 1]

NumDigits(n) ==
  IF n < 10 THEN 1 ELSE IF n < 100 THEN 2 ELSE IF n < 1000 THEN 3
  ELSE IF n < 10000 THEN 4 ELSE IF n < 100000 THEN 5
  ELSE IF n < 1000000 THEN 6 ELSE IF n < 10000000 THEN 7
  ELSE IF n < 100000000 THEN 8 ELSE IF n < 1000000000 THEN 9 ELSE 10

\* A call with its arguments evaluated first, as C++ evaluates them: the
\* value of F at the values of the arguments.
Call1(F(_), a) == CHOOSE r \in {F(v) : v \in {a}} : TRUE
Call2(F(_, _), a, b) == CHOOSE r \in {F(v, w) : v \in {a}, w \in {b}} : TRUE
Call3(F(_, _, _), a, b, c) ==
  CHOOSE r \in {F(u, v, w) : u \in {a}, v \in {b}, w \in {c}} : TRUE
Call4(F(_, _, _, _), a, b, c, d) ==
  CHOOSE r \in {F(t, u, v, w) : t \in {a}, u \in {b}, v \in {c}, w \in {d}} :
    TRUE
Call5(F(_, _, _, _, _), a, b, c, d, e) ==
  CHOOSE r \in {F(q, t, u, v, w) :
                  q \in {a}, t \in {b}, u \in {c}, v \in {d}, w \in {e}} : TRUE

\* A finite double m * 10^e.
Num(m, e) == [k |-> "num", m |-> m, e |-> e]
NaN == [k |-> "nan", m |-> 0, e |-> 0]
\* +infinity (s = 1) or -infinity (s = -1).
Inf(s) == [k |-> "inf", m |-> s, e |-> 0]
Zero == Num(0, 0)

RECURSIVE Strip(_, _)
\* The canonical form of m * 10^e: no trailing zero in the mantissa.
Strip(m, e) ==
  IF m = 0 THEN Zero
  ELSE IF m % 10 = 0 THEN Strip(m \div 10, e + 1)
  ELSE Num(m, e)

\* m * 10^e rounded to Digits digits, to nearest, ties away from zero
\* (m is a nonnegative integer here; s is the sign).
RoundMag(s, a, e) ==
  LET nd == NumDigits(a)
      drop == IF nd > Digits THEN nd - Digits ELSE 0
      q == (a + (Pow10(drop) \div 2)) \div Pow10(drop)
  IN  Strip(s * q, e + drop)

Round(m, e) == RoundMag(IF m < 0 THEN -1 ELSE 1, Abs(m), e)

\* int -> double.
FromInt(n) == Round(n, 0)

Sign(x) == IF x.m < 0 THEN -1 ELSE IF x.m > 0 THEN 1 ELSE 0

FNeg(x) ==
  Call1(LAMBDA x_ : IF x_.k = "nan" THEN NaN ELSE [x_ EXCEPT !.m = -x_.m],
        x)

\* x + y for finite x, y with x.e >= y.e.
AddAligned(x, y) ==
  LET d == x.e - y.e
  IN  IF x.m = 0 THEN y
      ELSE IF y.m = 0 THEN x
      ELSE IF NumDigits(Abs(x.m)) + d > 9 THEN x
      ELSE Round(x.m * Pow10(d) + y.m, y.e)

\* x + y.
FAdd(x, y) ==
  Call2(LAMBDA x_, y_ :
  IF x_.k = "nan" \/ y_.k = "nan" THEN NaN
  ELSE IF x_.k = "inf" /\ y_.k = "inf" THEN (IF x_.m = y_.m THEN x_ ELSE NaN)
  ELSE IF x_.k = "inf" THEN x_
  ELSE IF y_.k = "inf" THEN y_
  ELSE AddAligned(IF x_.e >= y_.e THEN x_ ELSE y_, IF x_.e >= y_.e THEN y_ ELSE x_),
        x, y)

\* x - y.
FSub(x, y) == FAdd(x, FNeg(y))

\* x * y.
FMul(x, y) ==
  Call2(LAMBDA x_, y_ :
  IF x_.k = "nan" \/ y_.k = "nan" THEN NaN
  ELSE IF x_.k = "inf" \/ y_.k = "inf"
       THEN (IF Sign(x_) * Sign(y_) = 0 THEN NaN ELSE Inf(Sign(x_) * Sign(y_)))
  ELSE Round(x_.m * y_.m, x_.e + y_.e),
        x, y)

\* x / y.
FDiv(x, y) ==
  Call2(LAMBDA x_, y_ :
  IF x_.k = "nan" \/ y_.k = "nan" THEN NaN
  ELSE IF x_.k = "inf" /\ y_.k = "inf" THEN NaN
  ELSE IF x_.k = "inf" THEN Inf(Sign(x_) * (IF Sign(y_) < 0 THEN -1 ELSE 1))
  ELSE IF y_.k = "inf" THEN Zero
  ELSE IF y_.m = 0 THEN (IF x_.m = 0 THEN NaN ELSE Inf(Sign(x_)))
  ELSE IF x_.m = 0 THEN Zero
  ELSE LET s == 9 - NumDigits(Abs(x_.m))
           q == (Abs(x_.m) * Pow10(s)) \div Abs(y_.m)
       IN  Round(Sign(x_) * Sign(y_) * q, x_.e - s - y_.e),
        x, y)

RECURSIVE SqrtIter(_, _)
SqrtIter(n, g) ==
  Call2(LAMBDA n_, g_ :
  LET h == (g_ + n_ \div g_) \div 2
  IN  IF h >= g_ THEN g_ ELSE SqrtIter(n_, h),
        n, g)

\* The integer square root of n >= 0.
ISqrt(n) == IF n = 0 THEN 0 ELSE SqrtIter(n, 46341)

\* The integer square root of 100 * n, from r = ISqrt(n).
ISqrt100(n, r) ==
  Call2(LAMBDA n_, r_ :
  LET rest == 100 * (n_ - r_ * r_)
      d == CHOOSE c \in 0..9 :
             /\ 20 * r_ * c + c * c <= rest
             /\ \A b \in (c + 1)..9 : 20 * r_ * b + b * b > rest
  IN  10 * r_ + d,
        n, r)

\* std::sqrt(x).
FSqrt(x) ==
  Call1(LAMBDA x_ :
  IF x_.k = "nan" THEN NaN
  ELSE IF x_.m < 0 THEN NaN
  ELSE IF x_.k = "inf" THEN x_
  ELSE IF x_.m = 0 THEN Zero
  ELSE LET s0 == 8 - NumDigits(x_.m)
           s == IF (x_.e - s0) % 2 = 0 THEN s0 ELSE s0 + 1
           n == x_.m * Pow10(s)
       IN  Round(ISqrt100(n, ISqrt(n)), ((x_.e - s) \div 2) - 1),
        x)

\* x < y.
FLess(x, y) ==
  Call2(LAMBDA x_, y_ :
  IF x_.k = "nan" \/ y_.k = "nan" THEN FALSE
  ELSE IF x_.k = "inf" /\ y_.k = "inf" THEN x_.m < y_.m
  ELSE Sign(FSub(x_, y_)) < 0,
        x, y)

\* x > y.
FGreater(x, y) == FLess(y, x)

\* double -> int: truncation toward zero (of a finite value).
FToInt(x) ==
  Call1(LAMBDA x_ :
  IF x_.k # "num" THEN 0
  ELSE IF x_.e >= 0 THEN x_.m * Pow10(x_.e)
  ELSE IF -x_.e > 9 THEN 0
  ELSE Sign(x_) * (Abs(x_.m) \div Pow10(-x_.e)),
        x)

\* The largest finite double.
DBL_MAX == Num(Pow10(Digits) - 1, 308 - Digits)

(***************************************************************************)
(* defs.h: Point, Color, Sphere, Light                                     *)
(***************************************************************************)
Point(x, y, z) == [x |-> x, y |-> y, z |-> z]

\* A point with int coordinates.
Pt(x, y, z) == Point(FromInt(x), FromInt(y), FromInt(z))

\* a + b.
PAdd(a, b) ==
  Call2(LAMBDA a_, b_ : Point(FAdd(a_.x, b_.x), FAdd(a_.y, b_.y), FAdd(a_.z, b_.z)),
        a, b)

\* a - b.
PSub(a, b) ==
  Call2(LAMBDA a_, b_ : Point(FSub(a_.x, b_.x), FSub(a_.y, b_.y), FSub(a_.z, b_.z)),
        a, b)

\* v * k, k a double.
PScale(v, k) ==
  Call2(LAMBDA v_, k_ : Point(FMul(v_.x, k_), FMul(v_.y, k_), FMul(v_.z, k_)),
        v, k)

\* v / k, k a double.
PDivide(v, k) ==
  Call2(LAMBDA v_, k_ : Point(FDiv(v_.x, k_), FDiv(v_.y, k_), FDiv(v_.z, k_)),
        v, k)

\* a * b, the dot product.
Dot(a, b) ==
  Call2(LAMBDA a_, b_ : FAdd(FAdd(FMul(a_.x, b_.x), FMul(a_.y, b_.y)), FMul(a_.z, b_.z)),
        a, b)

\* v.length().
Length(v) ==
  Call1(LAMBDA v_ : FSqrt(Dot(v_, v_)),
        v)

Color(r, g, b) == [r |-> r, g |-> g, b |-> b]
RED == Color(255, 0, 0)
GREEN == Color(0, 255, 0)
BLUE == Color(0, 0, 255)
WHITE == Color(255, 255, 255)

\* c * k, k a double: every channel multiplied, back to int, not clamped.
ColorTimes(c, k) ==
  Call2(LAMBDA c_, k_ :
  Color(FToInt(FMul(FromInt(c_.r), k_)), FToInt(FMul(FromInt(c_.g), k_)),
        FToInt(FMul(FromInt(c_.b), k_))),
        c, k)

Sphere(center, radius, color) ==
  [center |-> center, radius |-> FromInt(radius), color |-> color]

AMBIENT == "AMBIENT"
POINT == "POINT"
DIRECTIONAL == "DIRECTIONAL"

\* intensity is given in tenths.
Light(vector, tenths, type) ==
  [vector |-> vector, intensity |-> Round(tenths, -1), type |-> type]

(***************************************************************************)
(* The globals of main.cpp                                                 *)
(***************************************************************************)
Cw == 2 * HalfCanvas
Ch == 2 * HalfCanvas
Vw == 1
Vh == 1
z_dist == 1

\* Scene::Scene().
SceneInit ==
  [camera |-> Pt(0, 0, 0),
   spheres |-> << Sphere(Pt(0, -1, 3), 1, RED),
                  Sphere(Pt(2, 0, 4), 1, GREEN),
                  Sphere(Pt(-2, 0, 4), 1, BLUE),
                  Sphere(Pt(0, -5001, 0), 5000, Color(0, 255, 255)) >>,
   lights |-> << Light(Pt(0, 0, 0), 2, AMBIENT),
                 Light(Pt(2, 1, 0), 6, POINT),
                 Light(Pt(1, 4, 4), 2, DIRECTIONAL) >>]

\* a / b of two ints, b > 0: C++ truncates toward zero.
CDiv(a, b) == IF a >= 0 THEN a \div b ELSE -((-a) \div b)

(***************************************************************************)
(* intersect_ray_sphere                                                    *)
(***************************************************************************)
\* A slip: the call squares the radius in place.
SphereRadiusSquared(sphere) ==
  [sphere EXCEPT !.radius = FMul(sphere.radius, sphere.radius)]

\* What the call leaves in the sphere it is handed by reference.
SphereAfterIntersect(sphere) == sphere

\* Lines 65-67: the roots, from k2, the square root and 2.0 * k1.
RootsOf(k2, root, twoK1) ==
  Call3(LAMBDA k2_, root_, twoK1_ :
  << FDiv(FAdd(FNeg(k2_), root_), twoK1_), FDiv(FSub(FNeg(k2_), root_), twoK1_) >>,
        k2, root, twoK1)

\* A slip: <= for <, so that a tangent ray misses.
RootsTangentMissed(k1, k2, discriminant) ==
  IF ~FLess(Zero, discriminant)
  THEN <<DBL_MAX, DBL_MAX>>
  ELSE RootsOf(k2, FSqrt(discriminant), FMul(FromInt(2), k1))

\* Lines 62-68: the roots, from the discriminant.
RootsFromDiscriminant(k1, k2, discriminant) ==
  Call3(LAMBDA k1_, k2_, discriminant_ :
  IF FLess(discriminant_, Zero)
  THEN <<DBL_MAX, DBL_MAX>>
  ELSE RootsOf(k2_, FSqrt(discriminant_), FMul(FromInt(2), k1_)),
        k1, k2, discriminant)

\* Line 61: the discriminant.
RootsFromK(k1, k2, k3) ==
  Call3(LAMBDA k1_, k2_, k3_ :
  RootsFromDiscriminant(k1_, k2_,
                        FSub(FMul(k2_, k2_), FMul(FMul(FromInt(4), k1_), k3_))),
        k1, k2, k3)

\* Lines 57-59: k1, k2, k3.
RootsFromOc(oc, dir, radius) ==
  Call3(LAMBDA oc_, dir_, radius_ :
  RootsFromK(Dot(dir_, dir_), FMul(FromInt(2), Dot(oc_, dir_)),
             FSub(Dot(oc_, oc_), FMul(radius_, radius_))),
        oc, dir, radius)

\* The pair of roots.
intersect_ray_sphere(origin, dir, sphere) ==
  RootsFromOc(PSub(origin, sphere.center), dir, sphere.radius)

(***************************************************************************)
(* compute_lighting                                                        *)
(***************************************************************************)
\* The vector L of a light that is not ambient.
LightVector(l, p) ==
  CASE l.type = POINT -> PSub(l.vector, p)
    [] l.type = DIRECTIONAL -> l.vector

\* A slip: the test dot > 0 is missing.
DiffuseUnguarded(i, l, n, L, dot) ==
  FAdd(i, FDiv(FMul(l.intensity, dot), FMul(Length(n), Length(L))))

\* Lines 91-93: the light adds to i when dot > 0.
Diffuse(i, l, n, L, dot) ==
  Call5(LAMBDA i_, l_, n_, L_, dot_ :
  IF FGreater(dot_, Zero)
  THEN FAdd(i_, FDiv(FMul(l_.intensity, dot_), FMul(Length(n_), Length(L_))))
  ELSE i_,
        i, l, n, L, dot)

\* Line 90: dot = N * L.
DiffuseFrom(i, l, n, L) ==
  Call4(LAMBDA i_, l_, n_, L_ : Diffuse(i_, l_, n_, L_, Dot(n_, L_)),
        i, l, n, L)

\* A slip: an ambient light is treated as a directional one.
LightAddAmbientAsDiffuse(i, l, p, n) ==
  DiffuseFrom(i, l, n, IF l.type = POINT THEN PSub(l.vector, p) ELSE l.vector)

\* One turn of the loop over the lights: the new value of i.
LightAdd(i, l, p, n) ==
  IF l.type = AMBIENT
  THEN FAdd(i, l.intensity)
  ELSE DiffuseFrom(i, l, n, LightVector(l, p))

RECURSIVE LightingFrom(_, _, _, _, _)
\* The loop over lights[j..], from the accumulator i.
LightingFrom(i, lights, j, p, n) ==
  IF j > Len(lights) THEN i
  ELSE LightingFrom(LightAdd(i, lights[j], p, n), lights, j + 1, p, n)

\* compute_lighting(P, N) over the lights of a scene.
compute_lighting(lights, p, n) == LightingFrom(Zero, lights, 1, p, n)

(***************************************************************************)
(* trace_ray                                                               *)
(***************************************************************************)
\* A slip: the test against the best root so far is missing.
AcceptsAnyInRange(r, best, lo, hi) == FLess(lo, r) /\ FLess(r, hi)

\* A slip: the test against t_min is missing.
AcceptsNoLowerBound(r, best, lo, hi) == FLess(r, best) /\ FLess(r, hi)

\* A slip: <= for < against the best root so far.
AcceptsTies(r, best, lo, hi) ==
  ~FLess(best, r) /\ FLess(lo, r) /\ FLess(r, hi)

\* A slip: <= for < against t_min.
AcceptsAtMin(r, best, lo, hi) ==
  FLess(r, best) /\ ~FLess(r, lo) /\ FLess(r, hi)

\* The test of both if statements: the root r replaces the best t so far.
Accepts(r, best, lo, hi) == FLess(r, best) /\ FLess(lo, r) /\ FLess(r, hi)

\* std::optional<Sphere>: empty, or a copy of a sphere.
Nothing == <<>>
Some(s) == <<s>>

\* One if statement of the loop: <<t, m>> after the root r of sphere s.
Update(tm, r, s, lo, hi) ==
  Call5(LAMBDA tm_, r_, s_, lo_, hi_ :
  IF Accepts(r_, tm_[1], lo_, hi_) THEN <<r_, Some(s_)>> ELSE tm_,
        tm, r, s, lo, hi)

\* Lines 110-119: both roots, the first and then the second.
ClosestOf(tm, t_s, s, lo, hi) ==
  Call5(LAMBDA tm_, t_s_, s_, lo_, hi_ :
  Update(Update(tm_, t_s_[1], s_, lo_, hi_), t_s_[2], s_, lo_, hi_),
        tm, t_s, s, lo, hi)

\* One turn of the loop over the spheres: the new <<t, m>>.
Closest(tm, s, origin, dir, lo, hi) ==
  ClosestOf(tm, intersect_ray_sphere(origin, dir, s), s, lo, hi)

(***************************************************************************)
(* main                                                                    *)
(***************************************************************************)
canvas_to_viewport(x, y) ==
  Point(FDiv(FMul(FromInt(x), FromInt(Vw)), FromInt(Cw)),
        FDiv(FMul(FromInt(y), FromInt(Vh)), FromInt(Ch)),
        FromInt(z_dist))

CwO == CDiv(Cw, 2)
ChO == CDiv(Ch, 2)

\* A slip: the row is not flipped.
RowNoFlip(y) == y + ChO

\* The row and the column of pixel (x, y) in the image.
Row(y) == ChO - y - 1
Col(x) == x + CwO

\* png::rgb_pixel(r, g, b): three bytes.
rgb_pixel(c) == <<c.r % 256, c.g % 256, c.b % 256>>

Rows == 0..(Ch - 1)
Cols == 0..(Cw - 1)
InGrid(r, c) == r \in Rows /\ c \in Cols

\* Somewhere that is no pixel of the image.
Outside == <<-1, -1>>

\* Where a store to image[r][c] may land: that pixel, or, out of the
\* image's range, any pixel or none (the behaviour is undefined).
StoreTargets(r, c) ==
  IF InGrid(r, c) THEN {<<r, c>>} ELSE (Rows \X Cols) \cup {Outside}

\* A slip: the outer loop stops at the middle column.
LoopCondHalf(x) == x < 0

\* The condition of the outer for loop.
LoopCond(x) == x < CDiv(Cw, 2)

VARIABLES
  scene,    \* the global scene
  pc,       \* where the program is
  x, y,     \* main: the loop variables
  image,    \* main: the image, image[row][col]
  writes,   \* how many times each pixel was the target of a store
  oob,      \* a store had its target out of the image
  output,   \* what image.write wrote: empty, or the image
  origin, dir, t_min, t_max,   \* trace_ray: the parameters
  t, m, si, \* trace_ray: the best root, its sphere, the loop's position
  P, N,     \* compute_lighting: the parameters
  i, li,    \* compute_lighting: the accumulator, the loop's position
  color     \* the value trace_ray returned

vars == <<scene, pc, x, y, image, writes, oob, output, origin, dir, t_min,
          t_max, t, m, si, P, N, i, li, color>>

mainVars == <<x, y, image, writes, oob, output>>
rayVars == <<origin, dir, t_min, t_max>>
hitVars == <<t, m, si>>
lightVars == <<P, N, i, li>>

\* png::image<png::rgb_pixel> image(Cw, Ch): every pixel zero.
BlankImage == [r \in Rows |-> [c \in Cols |-> <<0, 0, 0>>]]
NoWrites == [r \in Rows |-> [c \in Cols |-> 0]]

\* The program: the scene is constructed, main is at its loop.
Init ==
  /\ scene = SceneInit
  /\ pc = "loop"
  /\ x = CDiv(-Cw, 2)
  /\ y = CDiv(-Ch, 2)
  /\ image = BlankImage
  /\ writes = NoWrites
  /\ oob = FALSE
  /\ output = <<>>
  /\ origin = Pt(0, 0, 0)
  /\ dir = Pt(0, 0, 0)
  /\ t_min = Zero
  /\ t_max = Zero
  /\ t = DBL_MAX
  /\ m = Nothing
  /\ si = 1
  /\ P = Pt(0, 0, 0)
  /\ N = Pt(0, 0, 0)
  /\ i = Zero
  /\ li = 1
  /\ color = Color(0, 0, 0)

\* main, lines 149-150: the direction of pixel (x, y) and the call of
\* trace_ray(scene.camera, dir, 0, 2000), up to its loop.
CallTraceRay ==
  /\ pc = "loop"
  /\ LoopCond(x)
  /\ origin' = scene.camera
  /\ dir' = canvas_to_viewport(x, y)
  /\ t_min' = FromInt(0)
  /\ t_max' = FromInt(2000)
  /\ t' = DBL_MAX
  /\ m' = Nothing
  /\ si' = 1
  /\ pc' = "trace"
  /\ UNCHANGED <<scene, mainVars, lightVars, color>>

\* trace_ray, lines 108-120: one sphere.
TraceSphere ==
  /\ pc = "trace"
  /\ si <= Len(scene.spheres)
  /\ \E tm \in {Closest(<<t, m>>, scene.spheres[si], origin, dir, t_min, t_max)} :
        /\ t' = tm[1]
        /\ m' = tm[2]
  /\ scene' = [scene EXCEPT !.spheres[si] = SphereAfterIntersect(@)]
  /\ si' = si + 1
  /\ UNCHANGED <<pc, mainVars, rayVars, lightVars, color>>

\* trace_ray, lines 121 and 127: no sphere was hit.
TraceMiss ==
  /\ pc = "trace"
  /\ si > Len(scene.spheres)
  /\ m = Nothing
  /\ color' = WHITE
  /\ pc' = "ret"
  /\ UNCHANGED <<scene, mainVars, rayVars, hitVars, lightVars>>

\* trace_ray, lines 121-125: P, N and the call of compute_lighting(P, N),
\* up to its loop.
TraceHit ==
  /\ pc = "trace"
  /\ si > Len(scene.spheres)
  /\ m # Nothing
  /\ \E p \in {PAdd(origin, PScale(dir, t))} :
        /\ P' = p
        /\ \E n \in {PSub(p, m[1].center)} : N' = PDivide(n, Length(n))
  /\ i' = Zero
  /\ li' = 1
  /\ pc' = "light"
  /\ UNCHANGED <<scene, mainVars, rayVars, hitVars, color>>

\* compute_lighting, lines 80-95: one light.
LightStep ==
  /\ pc = "light"
  /\ li <= Len(scene.lights)
  /\ i' = LightAdd(i, scene.lights[li], P, N)
  /\ li' = li + 1
  /\ UNCHANGED <<scene, pc, mainVars, rayVars, hitVars, P, N, color>>

\* compute_lighting, line 96: return i.
LightReturn ==
  /\ pc = "light"
  /\ li > Len(scene.lights)
  /\ pc' = "lit"
  /\ UNCHANGED <<scene, mainVars, rayVars, hitVars, lightVars, color>>

\* trace_ray, line 125: the color of the sphere times the lighting.
Shade ==
  /\ pc = "lit"
  /\ color' = ColorTimes(m[1].color, i)
  /\ pc' = "ret"
  /\ UNCHANGED <<scene, mainVars, rayVars, hitVars, lightVars>>

\* main, line 151, and the step of the loops: y, then x.
StorePixel ==
  /\ pc = "ret"
  /\ LET r == Row(y)
         c == Col(x)
     IN  /\ \E tgt \in StoreTargets(r, c) :
               image' = IF tgt = Outside THEN image
                        ELSE [image EXCEPT ![tgt[1]][tgt[2]] = rgb_pixel(color)]
         /\ oob' = (oob \/ ~InGrid(r, c))
         /\ writes' = IF InGrid(r, c)
                      THEN [writes EXCEPT ![r][c] = @ + 1] ELSE writes
  /\ IF y + 1 < CDiv(Ch, 2)
     THEN /\ y' = y + 1
          /\ x' = x
     ELSE /\ y' = CDiv(-Ch, 2)
          /\ x' = x + 1
  /\ pc' = "loop"
  /\ UNCHANGED <<scene, output, rayVars, hitVars, lightVars, color>>

\* main, line 157: image.write, after the loops.
WriteImage ==
  /\ pc = "loop"
  /\ ~LoopCond(x)
  /\ output' = <<image>>
  /\ pc' = "done"
  /\ UNCHANGED <<scene, x, y, image, writes, oob, rayVars, hitVars,
                 lightVars, color>>

Next ==
  \/ CallTraceRay
  \/ TraceSphere
  \/ TraceMiss
  \/ TraceHit
  \/ LightStep
  \/ LightReturn
  \/ Shade
  \/ StorePixel
  \/ WriteImage

Spec == Init /\ [][Next]_vars

\* The program runs: main is single-threaded and nothing stops it.
FairSpec == Spec /\ WF_vars(Next)

(***************************************************************************)
(* trace_ray on its own: any ray, any range, any list of spheres           *)
(***************************************************************************)
SeqsUpTo(S, n) == UNION {[1..k -> S] : k \in 0..n}

\* Spheres on and off the z axis, in front of and around the origin (the
\* last one has a root behind the origin).
TraceSpheres ==
  { Sphere(Pt(0, 0, 3), 1, RED),
    Sphere(Pt(0, 0, 4), 2, GREEN),
    Sphere(Pt(0, 0, 5), 1, BLUE),
    Sphere(Pt(0, 2, 3), 1, Color(0, 255, 255)),
    Sphere(Pt(0, 0, 0), 2, Color(255, 0, 255)) }

TraceOrigins == {Pt(0, 0, 0), Pt(0, 0, 1)}

\* Directions, the zero vector among them.
TraceDirs == {Pt(0, 0, 1), Pt(0, 0, 2), Pt(0, 1, 1), Pt(0, 0, 0)}

\* Pairs <<t_min, t_max>>.
TraceRanges ==
  { <<FromInt(0), FromInt(2000)>>, <<FromInt(2), FromInt(2000)>>,
    <<FromInt(2), FromInt(4)>>, <<FromInt(0), Inf(1)>> }

\* trace_ray(origin, dir, t_min, t_max) is entered, at its loop.
InitTrace ==
  /\ \E ss \in SeqsUpTo(TraceSpheres, MaxSpheres) :
        scene = [SceneInit EXCEPT !.spheres = ss]
  /\ pc = "trace"
  /\ x = 0
  /\ y = 0
  /\ image = BlankImage
  /\ writes = NoWrites
  /\ oob = FALSE
  /\ output = <<>>
  /\ origin \in TraceOrigins
  /\ dir \in TraceDirs
  /\ \E range \in TraceRanges :
        /\ t_min = range[1]
        /\ t_max = range[2]
  /\ t = DBL_MAX
  /\ m = Nothing
  /\ si = 1
  /\ P = Pt(0, 0, 0)
  /\ N = Pt(0, 0, 0)
  /\ i = Zero
  /\ li = 1
  /\ color = Color(0, 0, 0)

NextTrace ==
  \/ TraceSphere
  \/ TraceMiss
  \/ TraceHit
  \/ LightStep
  \/ LightReturn
  \/ Shade

SpecTrace == InitTrace /\ [][NextTrace]_vars

(***************************************************************************)
(* compute_lighting on its own: any point, any normal, any list of lights  *)
(***************************************************************************)
LightChoices ==
  { Light(Pt(0, 0, 0), 2, AMBIENT),
    Light(Pt(0, 0, 0), 6, AMBIENT),
    Light(Pt(2, 1, 0), 6, POINT),
    Light(Pt(0, -3, 3), 6, POINT),
    Light(Pt(1, 4, 4), 2, DIRECTIONAL) }

LightPoints == {Pt(0, 0, 3), Pt(2, 1, 0)}

LightNormals == {Pt(0, 1, 0), Pt(0, -1, 0), Pt(1, 0, 0), Pt(0, 0, 2)}

\* compute_lighting(P, N) is entered, at its loop.
InitLight ==
  /\ \E ls \in SeqsUpTo(LightChoices, MaxLights) :
        scene = [SceneInit EXCEPT !.lights = ls]
  /\ pc = "light"
  /\ x = 0
  /\ y = 0
  /\ image = BlankImage
  /\ writes = NoWrites
  /\ oob = FALSE
  /\ output = <<>>
  /\ origin = Pt(0, 0, 0)
  /\ dir = Pt(0, 0, 0)
  /\ t_min = Zero
  /\ t_max = Zero
  /\ t = DBL_MAX
  /\ m = Nothing
  /\ si = 1
  /\ P \in LightPoints
  /\ N \in LightNormals
  /\ i = Zero
  /\ li = 1
  /\ color = Color(0, 0, 0)

NextLight ==
  \/ LightStep
  \/ LightReturn

SpecLight == InitLight /\ [][NextLight]_vars

(***************************************************************************)
(* Properties of trace_ray                                                 *)
(***************************************************************************)
\* The loop over the spheres is over.
Looped == pc # "trace" \/ si > Len(scene.spheres)

RECURSIVE RootsUpTo(_)
\* What intersect_ray_sphere answers for the spheres 1..j of the scene.
RootsUpTo(j) ==
  IF j = 0 THEN <<>>
  ELSE Append(RootsUpTo(j - 1),
              intersect_ray_sphere(origin, dir, scene.spheres[j]))

\* The answers for all the spheres, in scene order: R[j][k] is root k of
\* sphere j.
Roots == RootsUpTo(Len(scene.spheres))

\* The roots of the scene's spheres: sphere j, root k.
RootIdx == (1..Len(scene.spheres)) \X (1..2)
RootAt(R, jk) == R[jk[1]][jk[2]]

\* t_min < r < t_max.
Valid(r) == FLess(t_min, r) /\ FLess(r, t_max)

\* Sphere j has no root: intersect_ray_sphere answers the sentinel pair.
Missed(R, j) == R[j] = <<DBL_MAX, DBL_MAX>>

\* Root k of sphere j is a root t with t_min < t < t_max.
ValidRoot(R, jk) == ~Missed(R, jk[1]) /\ Valid(RootAt(R, jk))

\* C1: when some sphere has a root t with t_min < t < t_max, trace_ray
\* shades with the least such root over both roots of all spheres, and the
\* sphere it shades is one that has that root: P = origin + dir * t, N is
\* the normalized P - center of that sphere, and the color returned is that
\* sphere's color times compute_lighting(P, N).
ClosestHitIsMinimum ==
  Looped => \A R \in {Roots} :
    (\E jk \in RootIdx : ValidRoot(R, jk)) =>
      /\ m # Nothing
      /\ Valid(t)
      /\ \A jk \in RootIdx : ValidRoot(R, jk) => ~FLess(RootAt(R, jk), t)
      /\ \E jk \in RootIdx : scene.spheres[jk[1]] = m[1] /\ RootAt(R, jk) = t
      /\ pc \in {"light", "lit", "ret"} =>
           /\ P = PAdd(origin, PScale(dir, t))
           /\ N = PDivide(PSub(P, m[1].center), Length(PSub(P, m[1].center)))
      /\ pc = "ret" =>
           color = ColorTimes(m[1].color, compute_lighting(scene.lights, P, N))

\* C1's case: two spheres with roots in range, the least one a root of the
\* second sphere only, and the ray shaded.
ClosestHitReached ==
  /\ pc = "ret"
  /\ Len(scene.spheres) = 2
  /\ m # Nothing
  /\ \E R \in {Roots} :
       /\ \E k \in 1..2 : ValidRoot(R, <<1, k>>)
       /\ \A k \in 1..2 : RootAt(R, <<1, k>>) # t
       /\ \E k \in 1..2 : RootAt(R, <<2, k>>) = t
  /\ color # WHITE

\* C2: trace_ray returns WHITE whenever no sphere has a root t with
\* t_min < t < t_max, and the sentinel DBL_MAX of a negative discriminant is
\* never the root of a hit.
MissIsWhite ==
  /\ pc = "ret" =>
       \A R \in {Roots} :
         (\A jk \in RootIdx : ~ValidRoot(R, jk)) => color = WHITE
  /\ m # Nothing => t # DBL_MAX

\* C2's case: every sphere of a scene of two answers the sentinel pair, the
\* range has no upper end, and the ray has returned.
MissReached ==
  /\ pc = "ret"
  /\ Len(scene.spheres) = 2
  /\ \E R \in {Roots} : \A j \in 1..2 : Missed(R, j)
  /\ t_max = Inf(1)
  /\ color = WHITE

\* The spheres that have the root r.
SpheresWithRoot(R, r) == {j \in 1..Len(R) : \E k \in 1..2 : R[j][k] = r}

\* C7: when several spheres have the least valid root, the one shaded is
\* the first of them in scene order.
FirstSphereWinsTies ==
  (Looped /\ m # Nothing) =>
    \A W \in {SpheresWithRoot(Roots, t)} :
      \E j \in W :
         /\ m[1] = scene.spheres[j]
         /\ \A h \in W : j <= h

\* C7's case: two different spheres share the least valid root, and the
\* first is the one shaded.
TieReached ==
  /\ pc = "ret"
  /\ m # Nothing
  /\ Len(scene.spheres) = 2
  /\ scene.spheres[1] # scene.spheres[2]
  /\ SpheresWithRoot(Roots, t) = {1, 2}
  /\ m[1] = scene.spheres[1]

\* C8 as claimed: a hit is a root in [t_min, t_max), so that whenever a
\* sphere has a root equal to t_min (and t_min < t_max) trace_ray hits, with
\* t = t_min.
HitRangeHalfOpen ==
  (Looped /\ FLess(t_min, t_max)
     /\ \E R \in {Roots} : \E jk \in RootIdx : RootAt(R, jk) = t_min) =>
    (m # Nothing /\ t = t_min)

\* C8 as amended: a hit is a root in the open range (t_min, t_max): neither
\* a root equal to t_min nor one equal to t_max is accepted, and trace_ray
\* hits exactly when some root lies strictly inside the range.
HitRangeOpen ==
  Looped =>
    /\ m # Nothing => (Valid(t) /\ t # t_min /\ t # t_max)
    /\ \A R \in {Roots} :
         m # Nothing <=> \E jk \in RootIdx : ValidRoot(R, jk)

\* C8's case: a sphere has a root equal to t_min and a root equal to t_max,
\* none inside, and the ray returned the background.
RangeEndsReached ==
  /\ pc = "ret"
  /\ \E R \in {Roots} :
       /\ \E jk \in RootIdx : RootAt(R, jk) = t_min
       /\ \E jk \in RootIdx : RootAt(R, jk) = t_max
  /\ m = Nothing
  /\ color = WHITE

(***************************************************************************)
(* Properties of compute_lighting                                          *)
(***************************************************************************)
RECURSIVE SumIntensity(_, _)
\* The sum of the intensities of lights[1..j], in order.
SumIntensity(lights, j) ==
  IF j = 0 THEN Zero
  ELSE FAdd(SumIntensity(lights, j - 1), lights[j].intensity)

AllAmbient == \A j \in 1..Len(scene.lights) : scene.lights[j].type = AMBIENT

\* C6: when every light is AMBIENT, compute_lighting(P, N) returns the sum
\* of their intensities (the intensity of the light when there is one), for
\* every P and N.
AmbientOnlyIsSum ==
  (pc = "lit" /\ AllAmbient) =>
    /\ i = SumIntensity(scene.lights, Len(scene.lights))
    /\ Len(scene.lights) = 1 => i = scene.lights[1].intensity

\* C6's case: two ambient lights, 0.2 and 0.6, and 0.8 returned.
AmbientOnlyReached ==
  /\ pc = "lit"
  /\ Len(scene.lights) = 2
  /\ AllAmbient
  /\ scene.lights[1].intensity # scene.lights[2].intensity
  /\ i = Round(8, -1)

\* The vector L of light l as the claim gives it.
ClaimedL(l) == IF l.type = POINT THEN PSub(l.vector, P) ELSE l.vector

\* C10: the accumulator starts at 0, and a POINT light (L = position - P)
\* or a DIRECTIONAL light (L = its vector) adds
\* intensity * dot(N, L) / (|N| * |L|) when dot(N, L) > 0 and leaves the
\* accumulator unchanged when dot(N, L) <= 0.
DiffuseOnlyWhenFacing ==
  [][ (pc = "light" /\ li <= Len(scene.lights)) =>
        /\ li = 1 => i = Zero
        /\ scene.lights[li].type # AMBIENT =>
             IF FGreater(Dot(N, ClaimedL(scene.lights[li])), Zero)
             THEN i' = FAdd(i, FDiv(FMul(scene.lights[li].intensity,
                                         Dot(N, ClaimedL(scene.lights[li]))),
                                    FMul(Length(N),
                                         Length(ClaimedL(scene.lights[li])))))
             ELSE i' = i ]_vars

\* C10's case: the first light is a POINT light with dot(N, L) <= 0, it
\* has had its turn, and the accumulator is still 0.
FacingAwayReached ==
  /\ pc = "light"
  /\ li = 2
  /\ scene.lights[1].type = POINT
  /\ ~FGreater(Dot(N, PSub(scene.lights[1].vector, P)), Zero)
  /\ Dot(N, PSub(scene.lights[1].vector, P)) # Zero
  /\ i = Zero

(***************************************************************************)
(* Properties of main                                                      *)
(***************************************************************************)
\* Pixel (px, py) has been through the loop body.
Processed(px, py) == px < x \/ (px = x /\ py < y)

AllWritten == \A r \in Rows : \A c \in Cols : writes[r][c] = 1

\* C3: every store of the render loop has its target inside the image;
\* the pixel of row r and column c is stored exactly once, when pixel
\* (c - CwO, ChO - 1 - r) is rendered, so that a larger y is a smaller row;
\* at the end of the loop every pixel has been stored exactly once.
StoresCoverImageOnce ==
  /\ ~oob
  /\ pc = "ret" => InGrid(Row(y), Col(x))
  /\ \A r \in Rows : \A c \in Cols :
        writes[r][c] = IF Processed(c - CwO, ChO - 1 - r) THEN 1 ELSE 0
  /\ \A y1, y2 \in CDiv(-Ch, 2)..(CDiv(Ch, 2) - 1) :
        y1 < y2 => Row(y2) < Row(y1)
  /\ pc = "done" => AllWritten

\* C3's case: the loop is over.
LoopOverReached == pc = "done" /\ AllWritten /\ ~LoopCond(x)

\* The lighting of the point where the center ray meets the red sphere.
CenterLighting == compute_lighting(SceneInit.lights, Pt(0, 0, 3), Pt(0, 1, 0))

\* C4: in the reference scene the ray of pixel x = 0, y = 0 has direction
\* (0, 0, 1) and hits the red sphere, the first of the scene, at t = 3; the
\* pixel stored at row ChO - 1, column CwO is the red sphere's color times
\* its lighting, not the background and with no green or blue.
CenterPixelIsRed ==
  /\ (x = 0 /\ y = 0 /\ pc \in {"trace", "light", "lit", "ret"}) =>
        dir = Pt(0, 0, 1)
  /\ (x = 0 /\ y = 0 /\ pc \in {"light", "lit", "ret"}) =>
        /\ m = Some(SceneInit.spheres[1])
        /\ m[1].color = RED
        /\ t = FromInt(3)
  /\ (x = 0 /\ y = 0 /\ pc = "ret") =>
        /\ color = ColorTimes(RED, CenterLighting)
        /\ color # WHITE
  /\ Processed(0, 0) =>
        /\ image[ChO - 1][CwO] = rgb_pixel(ColorTimes(RED, CenterLighting))
        /\ image[ChO - 1][CwO] # rgb_pixel(WHITE)
        /\ image[ChO - 1][CwO][1] > 0
        /\ image[ChO - 1][CwO][2] = 0
        /\ image[ChO - 1][CwO][3] = 0

\* C4's case: the center pixel has been stored.
CenterPixelReached ==
  /\ Processed(0, 0)
  /\ writes[ChO - 1][CwO] = 1
  /\ image[ChO - 1][CwO] = <<127, 0, 0>>

\* C5: the render loop ends, and image.write happens only after every pixel
\* has been stored: what is written is the whole image.
WriteAfterWholeCanvas ==
  /\ <>(pc = "done")
  /\ [](output # <<>> => (AllWritten /\ output = <<image>>))
  /\ [](pc = "done" => output # <<>>)

\* C5's case: the image has been written.
WrittenReached == pc = "done" /\ output = <<image>> /\ AllWritten

\* C9: the scene is the one Scene::Scene() made, whatever has been rendered.
SceneUnchanged == scene = SceneInit

\* C9's case: pixels have been rendered, with rays that hit and rays that
\* missed, and the program is inside compute_lighting.
RenderedReached ==
  /\ pc = "light"
  /\ li > 1
  /\ \E r \in Rows : \E c \in Cols : writes[r][c] = 1 /\ image[r][c] = <<255, 255, 255>>
  /\ \E r \in Rows : \E c \in Cols : writes[r][c] = 1 /\ image[r][c] # <<255, 255, 255>>

====
